---- MODULE Spec2Model ----
(***************************************************************************)
(* Movie & TV Show Manager front end: the application shell (App.tsx), its *)
(* list loading (fetchData and the two effects), the add / edit / delete   *)
(* modals and the table's load-more trigger, as a state machine.           *)
(*                                                                         *)
(* React specifics kept by the model:                                      *)
(*  - a handler or effect reads the state of the render that created it:   *)
(*    fetchData called right after setPage(1) still requests the page of   *)
(*    that render, and a handler resumed after an await uses the activeTab *)
(*    and page captured when the form was submitted;                       *)
(*  - state updates made in one handler or effect are batched, so each     *)
(*    handler (with the effects it triggers) is one step;                  *)
(*  - requests are not cancelled: responses arrive in any order.           *)
(* The REST backend is outside the repository; it is a fixed paginated     *)
(* collection per kind, answering GET /{kind}?page=n&limit=m.              *)
(*                                                                         *)
(* Two specifications share the module.  Spec follows the application      *)
(* shell; what the user types into a form is not followed there, a submit  *)
(* of valid data is the step SubmitAdd or SubmitEdit.  FormSpec follows    *)
(* one form (MovieForm.tsx, TVShowForm.tsx) from the moment it is mounted  *)
(* in the add or edit modal: its formData, errors and touched state, the   *)
(* zod schema it validates against, and the request its onSubmit issues.   *)
(***************************************************************************)
EXTENDS Integers, Sequences, FiniteSets, TLC

\* ---------------------------------------------------------------- bounds
\* Number of records in the backend's movie collection.
MoviesTotal == 21
\* Number of records in the backend's TV show collection.
TVShowsTotal == 12
\* After the initial load the user triggers at most this many requests: tab
\* switches, load-more triggers and form or delete submissions.
MaxRequests == 3
\* A mounted form handles at most this many events: keystrokes that change a
\* field, blurs and submits.
MaxSteps == 3

\* ------------------------------------------------------------- constants
\* api.getAll(page, 10)
Limit == 10

Kinds == {"movies", "tvshows"}

\* The `type` tag of the records of a collection (api.ts adds it to bodies).
TypeOf(kind) == IF kind = "movies" THEN "movie" ELSE "tvshow"

\* selectedItem = null
NoItem == [type |-> "none", id |-> 0]

\* ------------------------------------------------------------ the backend
Total(kind) == IF kind = "movies" THEN MoviesTotal ELSE TVShowsTotal

Min(a, b) == IF a < b THEN a ELSE b

\* Number of records on page n (limit m) of a collection of `total` records.
PageLen(total, n, m) ==
    IF (n - 1) * m >= total THEN 0 ELSE Min(m, total - (n - 1) * m)

\* The body of a successful answer to GET /{kind}?page=n&limit=m:
\* { data: Record[], meta: { total, page, limit, hasMore } }
PaginatedResponse(kind, n, m) ==
    [data |-> [i \in 1..PageLen(Total(kind), n, m) |->
                  [type |-> TypeOf(kind), id |-> (n - 1) * m + i]],
     meta |-> [total |-> Total(kind), page |-> n, limit |-> m,
               hasMore |-> n * m < Total(kind)]]

\* ------------------------------------------------------------------ state
VARIABLES
    activeTab,          \* 'movies' | 'tvshows'
    data,               \* MediaItem[]
    page,               \* page cursor
    hasMore,
    isLoading,
    isAddModalOpen,
    isEditModalOpen,
    isDeleteModalOpen,
    selectedItem,       \* MediaItem | null (NoItem)
    listReqs,           \* outstanding GET requests, in the order issued
    mutReqs,            \* outstanding POST / PUT / DELETE requests
    returned,           \* history: pages returned to requests issued since the last reset
    issued,             \* number of requests the user has triggered since the initial load
    confirms,           \* history: DELETE requests issued from the open delete confirmation
    last                \* history: the last step that touched the loader or settled a request

vars == <<activeTab, data, page, hasMore, isLoading, isAddModalOpen,
          isEditModalOpen, isDeleteModalOpen, selectedItem, listReqs,
          mutReqs, returned, issued, confirms, last>>

modals == <<isAddModalOpen, isEditModalOpen, isDeleteModalOpen>>
loader == <<data, page, hasMore>>

Event(ev, pg, tag) == [ev |-> ev, page |-> pg, tag |-> tag]

\* The state of the form component rendered in the add or edit modal.
VARIABLES
    form,               \* the mounted form component, "none" when no form is followed
    formData,
    errors,             \* field -> list of messages (absent: undefined)
    touched,            \* the fields whose touched flag is true
    posted,             \* history: the POST / PUT requests the form's onSubmit issued
    steps,              \* number of form events handled since the form is followed
    lastOp              \* history: the last form event handled

formVars == <<form, formData, errors, touched, posted, steps, lastOp>>


\* -------------------------------------------------------------- helpers
Remove(seq, i) == [j \in 1..(Len(seq) - 1) |-> IF j < i THEN seq[j] ELSE seq[j + 1]]

\* History only: a reset makes every request issued before it a stale one.
MarkStale(reqs) == [j \in 1..Len(reqs) |-> [reqs[j] EXCEPT !.cur = FALSE]]

\* The rows whose Edit / Delete button the user presses: the first and the
\* last row of the table.
Rows == IF data = <<>> THEN {} ELSE {data[1], data[Len(data)]}

\* A rendered modal is a `fixed inset-0` overlay over the whole viewport: while
\* one is rendered, the tabs, the "Add New" button and the table below it
\* receive no pointer input.
AddModalRendered == isAddModalOpen
EditModalRendered == isEditModalOpen /\ selectedItem # NoItem
DeleteModalRendered == isDeleteModalOpen /\ selectedItem # NoItem
PageReachable == ~AddModalRendered /\ ~EditModalRendered /\ ~DeleteModalRendered

\* A table that stays mounted while a list load is pending.
TableMountedWhileLoading == PageReachable

\* {isLoading ? spinner : <DataTable .../>}: the table, and with it the
\* load-more trigger and the row buttons, is mounted only while not loading.
TableMounted == ~isLoading /\ PageReachable

\* ------------------------------------------------------------- fetchData
\* fetchData up to its await: setIsLoading(true); api.getAll(page, 10), where
\* activeTab and page are those of the render that created the closure.
\* origin, prior and cur are history: what triggered the request, the list
\* that the triggering reset discarded, and whether no reset has happened
\* since the request was issued.
FetchRequest(tab, pg, origin, prior) ==
    [kind |-> tab, page |-> pg, limit |-> Limit,
     origin |-> origin, prior |-> prior, cur |-> TRUE]

\* History only: the ordinal of a request among those issued since the last
\* reset.  The reset's own request is the first; load-more raises the
\* cursor by one per request, so the request for cursor value p is the p-th.
Ordinal(r) == IF r.origin = "more" THEN r.page ELSE 1

\* setPage(1); setData([]); fetchData(), as written in the activeTab effect and
\* after every successful create, update and delete.  tab and pg are the
\* activeTab and page captured by the fetchData closure that is called.
ResetAndFetch(tab, pg, origin) ==
    /\ page' = 1
    /\ data' = <<>>
    /\ isLoading' = TRUE
    /\ listReqs' = Append(MarkStale(listReqs), FetchRequest(tab, pg, origin, data))
    /\ returned' = {}
    /\ UNCHANGED hasMore

\* A success handler that replaces the list whatever page was requested.
FetchSuccessAlwaysReplaces(i) ==
    /\ i \in DOMAIN listReqs
    /\ LET r == listReqs[i]
           response == PaginatedResponse(r.kind, r.page, r.limit)
       IN /\ data' = response.data
          /\ hasMore' = response.meta.hasMore
          /\ isLoading' = FALSE
          /\ listReqs' = Remove(listReqs, i)
          /\ returned' = IF r.cur
                           THEN returned \cup {[no |-> Ordinal(r), kind |-> r.kind, page |-> r.page]}
                           ELSE returned
          /\ last' = Event("fetchOk", 0, "")
    /\ UNCHANGED <<activeTab, page, modals, selectedItem, mutReqs, issued, confirms>>
    /\ UNCHANGED formVars

\* fetchData after a successful await: replace on page 1, append otherwise,
\* take hasMore from the response; finally setIsLoading(false).
FetchSuccess(i) ==
    /\ i \in DOMAIN listReqs
    /\ LET r == listReqs[i]
           response == PaginatedResponse(r.kind, r.page, r.limit)
       IN /\ data' = IF r.page = 1 THEN response.data ELSE data \o response.data
          /\ hasMore' = response.meta.hasMore
          /\ isLoading' = FALSE
          /\ listReqs' = Remove(listReqs, i)
          /\ returned' = IF r.cur
                           THEN returned \cup {[no |-> Ordinal(r), kind |-> r.kind, page |-> r.page]}
                           ELSE returned
          /\ last' = Event("fetchOk", 0, "")
    /\ UNCHANGED <<activeTab, page, modals, selectedItem, mutReqs, issued, confirms>>
    /\ UNCHANGED formVars

\* A failure handler that also gives up on further pages.
FetchFailureClearsHasMore(i) ==
    /\ i \in DOMAIN listReqs
    /\ isLoading' = FALSE
    /\ hasMore' = FALSE
    /\ listReqs' = Remove(listReqs, i)
    /\ last' = Event("fetchFail", listReqs[i].page, listReqs[i].origin)
    /\ UNCHANGED <<activeTab, data, page, modals, selectedItem, mutReqs, returned, issued, confirms>>
    /\ UNCHANGED formVars

\* A failure handler that puts back the list the reset had discarded.
FetchFailureRestoresPrior(i) ==
    /\ i \in DOMAIN listReqs
    /\ isLoading' = FALSE
    /\ data' = listReqs[i].prior
    /\ listReqs' = Remove(listReqs, i)
    /\ last' = Event("fetchFail", listReqs[i].page, listReqs[i].origin)
    /\ UNCHANGED <<activeTab, page, hasMore, modals, selectedItem, mutReqs, returned, issued, confirms>>
    /\ UNCHANGED formVars

\* A failure handler without the finally block: the flag stays set.
FetchFailureKeepsLoading(i) ==
    /\ i \in DOMAIN listReqs
    /\ listReqs' = Remove(listReqs, i)
    /\ last' = Event("fetchFail", listReqs[i].page, listReqs[i].origin)
    /\ UNCHANGED <<activeTab, loader, isLoading, modals, selectedItem, mutReqs, returned, issued, confirms>>
    /\ UNCHANGED formVars

\* fetchData when the await rejects: console.error; finally setIsLoading(false).
FetchFailure(i) ==
    /\ i \in DOMAIN listReqs
    /\ isLoading' = FALSE
    /\ listReqs' = Remove(listReqs, i)
    /\ last' = Event("fetchFail", listReqs[i].page, listReqs[i].origin)
    /\ UNCHANGED <<activeTab, loader, modals, selectedItem, mutReqs, returned, issued, confirms>>
    /\ UNCHANGED formVars

\* ------------------------------------------------------------------ tabs
\* onClick={() => setActiveTab(k)} followed by the activeTab effect; a click
\* on the tab that is already active changes nothing.
SwitchTab(k) ==
    /\ k \in Kinds
    /\ k # activeTab
    /\ PageReachable
    /\ issued < MaxRequests
    /\ issued' = issued + 1
    /\ activeTab' = k
    /\ ResetAndFetch(k, page, "tab")
    /\ last' = Event("reset", 0, "tab")
    /\ UNCHANGED <<modals, selectedItem, mutReqs, confirms>>
    /\ UNCHANGED formVars

\* ------------------------------------------------------------- load more
\* A load-more trigger that ignores hasMore.
ScrollEndIgnoresHasMore ==
    /\ TableMounted
    /\ issued < MaxRequests
    /\ issued' = issued + 1
    /\ page' = page + 1
    /\ isLoading' = TRUE
    /\ listReqs' = Append(listReqs, FetchRequest(activeTab, page + 1, "more", <<>>))
    /\ last' = Event("scrollEnd", 0, "more")
    /\ UNCHANGED <<activeTab, data, hasMore, modals, selectedItem, mutReqs, returned, confirms>>
    /\ UNCHANGED formVars

\* InfiniteScroll reaching the end of the list: next={loadMore} is called only
\* when its hasMore prop is true; loadMore is setPage(p => p + 1), and the
\* page effect then calls fetchData when the new page is greater than 1.
ScrollEnd ==
    /\ TableMounted
    /\ IF hasMore
         THEN /\ issued < MaxRequests
              /\ issued' = issued + 1
              /\ page' = page + 1
              /\ IF page + 1 > 1
                   THEN /\ isLoading' = TRUE
                        /\ listReqs' = Append(listReqs,
                               FetchRequest(activeTab, page + 1, "more", <<>>))
                   ELSE UNCHANGED <<isLoading, listReqs>>
              /\ last' = Event("scrollEnd", 0, "more")
         ELSE /\ UNCHANGED <<page, isLoading, listReqs, issued>>
              /\ last' = Event("scrollEnd", 0, "noop")
    /\ UNCHANGED <<activeTab, data, hasMore, modals, selectedItem, mutReqs, returned, confirms>>
    /\ UNCHANGED formVars

\* ---------------------------------------------------------------- modals
\* "Add New": onClick={() => setIsAddModalOpen(true)}
OpenAdd ==
    /\ PageReachable
    /\ isAddModalOpen' = TRUE
    /\ UNCHANGED <<activeTab, loader, isLoading, isEditModalOpen, isDeleteModalOpen,
                   selectedItem, listReqs, mutReqs, returned, issued, confirms, last>>
    /\ UNCHANGED formVars

\* The add form's onCancel={() => setIsAddModalOpen(false)}
CancelAdd ==
    /\ AddModalRendered
    /\ isAddModalOpen' = FALSE
    /\ UNCHANGED <<activeTab, loader, isLoading, isEditModalOpen, isDeleteModalOpen,
                   selectedItem, listReqs, mutReqs, returned, issued, confirms, last>>
    /\ UNCHANGED formVars

\* DataTable's onEdit(item): setSelectedItem(item); setIsEditModalOpen(true)
OnEdit(item) ==
    /\ TableMounted
    /\ item \in Rows
    /\ selectedItem' = item
    /\ isEditModalOpen' = TRUE
    /\ UNCHANGED <<activeTab, loader, isLoading, isAddModalOpen, isDeleteModalOpen,
                   listReqs, mutReqs, returned, issued, confirms, last>>
    /\ UNCHANGED formVars

\* DataTable's onDelete(item): setSelectedItem(item); setIsDeleteModalOpen(true)
OnDelete(item) ==
    /\ TableMounted
    /\ item \in Rows
    /\ selectedItem' = item
    /\ isDeleteModalOpen' = TRUE
    /\ confirms' = 0
    /\ UNCHANGED <<activeTab, loader, isLoading, isAddModalOpen, isEditModalOpen,
                   listReqs, mutReqs, returned, issued, last>>
    /\ UNCHANGED formVars

\* The edit form's onCancel: setIsEditModalOpen(false); setSelectedItem(null).
\* The form is rendered when isEditModalOpen && selectedItem.
CancelEdit ==
    /\ EditModalRendered
    /\ isEditModalOpen' = FALSE
    /\ selectedItem' = NoItem
    /\ UNCHANGED <<activeTab, loader, isLoading, isAddModalOpen, isDeleteModalOpen,
                   listReqs, mutReqs, returned, issued, confirms, last>>
    /\ UNCHANGED formVars

\* A cancel handler that re-fetches the list as the confirm path does.
CancelDeleteRefetches ==
    /\ DeleteModalRendered
    /\ isDeleteModalOpen' = FALSE
    /\ selectedItem' = NoItem
    /\ confirms' = 0
    /\ ResetAndFetch(activeTab, page, "mutation")
    /\ UNCHANGED <<activeTab, isAddModalOpen, isEditModalOpen, mutReqs, issued, last>>
    /\ UNCHANGED formVars

\* DeleteModal's onCancel: setIsDeleteModalOpen(false); setSelectedItem(null).
\* The modal is rendered when isDeleteModalOpen && selectedItem.
CancelDelete ==
    /\ DeleteModalRendered
    /\ isDeleteModalOpen' = FALSE
    /\ selectedItem' = NoItem
    /\ confirms' = 0
    /\ UNCHANGED <<activeTab, loader, isLoading, isAddModalOpen, isEditModalOpen,
                   listReqs, mutReqs, returned, issued, last>>
    /\ UNCHANGED formVars

\* ------------------------------------------------- create, update, delete
\* An outstanding POST / PUT / DELETE: the collection it is sent to, the
\* selected item it names, and what the suspended handler captured: the
\* activeTab and page its fetchData closure will use.
MutRequest(op, item) ==
    [op |-> op, kind |-> activeTab, item |-> item,
     tab |-> activeTab, page |-> page]

\* Submitting valid data in the add form: handleAddMovie on the movies tab,
\* handleAddTVShow on the other, up to `await api.create(formData)`.
SubmitAdd ==
    /\ AddModalRendered
    /\ issued < MaxRequests
    /\ issued' = issued + 1
    /\ mutReqs' = Append(mutReqs, MutRequest("create", NoItem))
    /\ UNCHANGED <<activeTab, loader, isLoading, modals, selectedItem, listReqs, returned, confirms, last>>
    /\ UNCHANGED formVars

\* Submitting valid data in the edit form: handleEditMovie / handleEditTVShow
\* up to `await api.update(selectedItem.id, formData)`.
SubmitEdit ==
    /\ EditModalRendered
    /\ issued < MaxRequests
    /\ issued' = issued + 1
    /\ mutReqs' = Append(mutReqs, MutRequest("update", selectedItem))
    /\ UNCHANGED <<activeTab, loader, isLoading, modals, selectedItem, listReqs, returned, confirms, last>>
    /\ UNCHANGED formVars

\* DeleteModal's onConfirm: handleDelete up to `await api.delete(selectedItem.id)`.
ConfirmDelete ==
    /\ DeleteModalRendered
    /\ issued < MaxRequests
    /\ issued' = issued + 1
    /\ mutReqs' = Append(mutReqs, MutRequest("delete", selectedItem))
    /\ confirms' = confirms + 1
    /\ UNCHANGED <<activeTab, loader, isLoading, modals, selectedItem, listReqs, returned, last>>
    /\ UNCHANGED formVars

\* The handler after its await resolved: close its modal (edit and delete also
\* clear selectedItem), then setPage(1); setData([]); fetchData() with the
\* closure captured at submission.
MutationSuccess(i) ==
    /\ i \in DOMAIN mutReqs
    /\ LET r == mutReqs[i]
       IN /\ isAddModalOpen' = IF r.op = "create" THEN FALSE ELSE isAddModalOpen
          /\ isEditModalOpen' = IF r.op = "update" THEN FALSE ELSE isEditModalOpen
          /\ isDeleteModalOpen' = IF r.op = "delete" THEN FALSE ELSE isDeleteModalOpen
          /\ selectedItem' = IF r.op = "create" THEN selectedItem ELSE NoItem
          /\ confirms' = IF r.op = "delete" THEN 0 ELSE confirms
          /\ ResetAndFetch(r.tab, r.page, "mutation")
          /\ last' = Event("reset", 0, "mutation")
    /\ mutReqs' = Remove(mutReqs, i)
    /\ UNCHANGED <<activeTab, issued>>
    /\ UNCHANGED formVars

\* A failure handler that closes the modal as the success path does.
MutationFailureClosesModal(i) ==
    /\ i \in DOMAIN mutReqs
    /\ LET r == mutReqs[i]
       IN /\ isAddModalOpen' = IF r.op = "create" THEN FALSE ELSE isAddModalOpen
          /\ isEditModalOpen' = IF r.op = "update" THEN FALSE ELSE isEditModalOpen
          /\ isDeleteModalOpen' = IF r.op = "delete" THEN FALSE ELSE isDeleteModalOpen
          /\ selectedItem' = IF r.op = "create" THEN selectedItem ELSE NoItem
          /\ confirms' = IF r.op = "delete" THEN 0 ELSE confirms
          /\ last' = Event("mutFail", 0, r.op)
    /\ mutReqs' = Remove(mutReqs, i)
    /\ UNCHANGED <<activeTab, loader, isLoading, listReqs, returned, issued>>
    /\ UNCHANGED formVars

\* The handler when its await rejects: console.error, nothing else.
MutationFailure(i) ==
    /\ i \in DOMAIN mutReqs
    /\ mutReqs' = Remove(mutReqs, i)
    /\ last' = Event("mutFail", 0, mutReqs[i].op)
    /\ UNCHANGED <<activeTab, loader, isLoading, modals, selectedItem, listReqs, returned, issued, confirms>>
    /\ UNCHANGED formVars

\* ------------------------------------------------------ JavaScript values
\* The values held by form state and by inputs, in one record shape: strings,
\* numbers (n, or n + 1/2 when half is set), undefined and NaN.
Str(s) == [t |-> "string", s |-> s, n |-> 0, half |-> FALSE]
Num(k) == [t |-> "number", s |-> "", n |-> k, half |-> FALSE]
NumHalf(k) == [t |-> "number", s |-> "", n |-> k, half |-> TRUE]
Undefined == [t |-> "undefined", s |-> "", n |-> 0, half |-> FALSE]
NaN == [t |-> "nan", s |-> "", n |-> 0, half |-> FALSE]

\* The string that is the decimal numeral of a number: the content of a
\* number input, and what React writes into it for a numeric value prop.
Numeral(v) == [t |-> "string", s |-> "#", n |-> v.n, half |-> v.half]

\* parseFloat(value): the number a numeral denotes, NaN for any other string.
ParseFloat(v) ==
    IF v.t = "string" /\ v.s = "#" THEN [t |-> "number", s |-> "", n |-> v.n, half |-> v.half]
    ELSE NaN

\* JavaScript truthiness: undefined, NaN, '' and 0 are falsy.
Falsy(v) ==
    \/ v.t \in {"undefined", "nan"}
    \/ v.t = "string" /\ v.s = ""
    \/ v.t = "number" /\ v.n = 0 /\ ~v.half

\* a || b
Or(a, b) == IF Falsy(a) THEN b ELSE a

\* obj[key]
Get(obj, key) == IF key \in DOMAIN obj THEN obj[key] ELSE Undefined

\* { ...obj, [key]: value }
Put(obj, key, value) ==
    [k \in DOMAIN obj \cup {key} |-> IF k = key THEN value ELSE obj[k]]

\* { ...a, ...b }
Spread(a, b) ==
    [k \in DOMAIN a \cup DOMAIN b |-> IF k \in DOMAIN b THEN b[k] ELSE a[k]]

\* -------------------------------------------------------------------- zod
\* .min(bound, message) and .int()
ZMin(bound, message) == [op |-> "min", bound |-> bound, message |-> message]
ZInt == [op |-> "int", bound |-> 0, message |-> "Expected integer, received float"]

\* z.string()..., z.number()..., z.literal(x).default(x), and ....optional()
ZString(checks) ==
    [kind |-> "string", checks |-> checks, optional |-> FALSE, literal |-> "", default |-> FALSE]
ZNumber(checks) ==
    [kind |-> "number", checks |-> checks, optional |-> FALSE, literal |-> "", default |-> FALSE]
ZLiteralDefault(x) ==
    [kind |-> "literal", checks |-> <<>>, optional |-> FALSE, literal |-> x, default |-> TRUE]
ZOptional(type) == [type EXCEPT !.optional = TRUE]

\* A min check that also rejects the bound itself.
FailsAtBound(check, v) ==
    IF check.op = "int" THEN v.half
    ELSE IF v.t = "string" THEN Len(v.s) <= check.bound
    ELSE v.n < check.bound \/ (v.n = check.bound /\ ~v.half)

\* Whether a value of the right type fails one check.  For min on a number
\* with an integer bound, n + 1/2 < bound exactly when n < bound.
Fails(check, v) ==
    IF check.op = "int" THEN v.half
    ELSE IF v.t = "string" THEN Len(v.s) < check.bound
    ELSE v.n < check.bound

\* type.parse(value): the messages of the issues raised, none when the value
\* is accepted.  undefined passes an optional or defaulted type; a value of
\* the wrong type raises one issue and no check runs; otherwise every check
\* runs and each failed one adds its issue, in the order the checks were
\* declared.
ZodParse(type, v) ==
    IF v.t = "undefined" /\ (type.optional \/ type.default) THEN <<>>
    ELSE IF type.kind = "literal"
      THEN IF v = Str(type.literal) THEN <<>> ELSE <<"Invalid literal value">>
    ELSE IF v.t # type.kind
      THEN <<IF v.t = "undefined" THEN "Required" ELSE "Invalid type">>
    ELSE LET failed == SelectSeq(type.checks, LAMBDA c : Fails(c, v))
         IN [i \in 1..Len(failed) |-> failed[i].message]

\* An object parse that stops at the first key that raises an issue.
ObjectIssuesFirstOnly(shape, keys, obj, i) ==
    LET bad == {j \in i..Len(keys) : ZodParse(shape[keys[j]], Get(obj, keys[j])) # <<>>}
    IN IF bad = {} THEN <<>>
       ELSE LET j == CHOOSE j \in bad : \A k \in bad : j <= k
            IN <<[path |-> keys[j],
                  message |-> ZodParse(shape[keys[j]], Get(obj, keys[j]))[1]]>>

\* z.object(shape).parse(data), its issues: each key of the shape is parsed in
\* declaration order and its issues carry the key as path.
RECURSIVE ObjectIssues(_, _, _, _)
ObjectIssues(shape, keys, obj, i) ==
    IF i > Len(keys) THEN <<>>
    ELSE LET messages == ZodParse(shape[keys[i]], Get(obj, keys[i]))
         IN [j \in 1..Len(messages) |-> [path |-> keys[i], message |-> messages[j]]]
                \o ObjectIssues(shape, keys, obj, i + 1)

\* A parse that keeps the keys the shape does not name (z.object().passthrough()).
ObjectOutputKeepsUnknownKeys(shape, keys, obj) ==
    LET value(k) == IF Get(obj, k).t = "undefined" /\ k \in DOMAIN shape /\ shape[k].default
                      THEN Str(shape[k].literal) ELSE Get(obj, k)
        present == {k \in DOMAIN obj \cup {keys[i] : i \in 1..Len(keys)} : value(k).t # "undefined"}
    IN [k \in present |-> value(k)]

\* z.object(shape).parse(data), its result when there is no issue: the keys of
\* the shape only (unknown keys are stripped), defaults filled in, keys whose
\* value is undefined left out as JSON leaves them out.
ObjectOutput(shape, keys, obj) ==
    LET value(k) == IF Get(obj, k).t = "undefined" /\ shape[k].default
                      THEN Str(shape[k].literal) ELSE Get(obj, k)
        present == {keys[i] : i \in {j \in 1..Len(keys) : value(keys[j]).t # "undefined"}}
    IN [k \in present |-> value(k)]

\* ---------------------------------------------------------------- schemas
\* MovieForm.tsx: movieSchema, and its keys in declaration order.
movieSchema ==
    [title    |-> ZString(<<ZMin(1, "Title is required")>>),
     type     |-> ZLiteralDefault("movie"),
     director |-> ZString(<<ZMin(1, "Director is required")>>),
     budget   |-> ZNumber(<<ZMin(0, "Budget must be positive")>>),
     location |-> ZString(<<ZMin(1, "Location is required")>>),
     duration |-> ZNumber(<<ZInt, ZMin(1, "Duration must be positive")>>),
     year     |-> ZNumber(<<ZInt, ZMin(1900, "Year must be after 1900")>>),
     poster   |-> ZOptional(ZString(<<>>))]

movieKeys ==
    <<"title", "type", "director", "budget", "location", "duration", "year", "poster">>

\* TVShowForm.tsx: tvShowSchema, and its keys in declaration order.
tvShowSchema ==
    [title     |-> ZString(<<ZMin(1, "Title is required")>>),
     type      |-> ZLiteralDefault("tvshow"),
     director  |-> ZString(<<ZMin(1, "Director is required")>>),
     budget    |-> ZNumber(<<ZMin(0, "Budget must be positive")>>),
     location  |-> ZString(<<ZMin(1, "Location is required")>>),
     duration  |-> ZNumber(<<ZInt, ZMin(1, "Duration must be positive")>>),
     startYear |-> ZNumber(<<ZInt, ZMin(1900, "Start year must be after 1900")>>),
     endYear   |-> ZOptional(ZNumber(<<ZInt, ZMin(1900, "End year must be after 1900")>>)),
     poster    |-> ZOptional(ZString(<<>>))]

tvShowKeys ==
    <<"title", "type", "director", "budget", "location", "duration", "startYear",
      "endYear", "poster">>

\* new Date().getFullYear()
CurrentYear == 2026

\* The form components.  The repository holds two versions of MovieForm.tsx
\* with the same schema: "MovieForm" collects every message of a field on
\* submit and marks all fields touched; "MovieFormB" is written as
\* TVShowForm.tsx is.
Forms == {"MovieForm", "MovieFormB", "TVShowForm"}

\* activeTab === 'movies' ? <MovieForm .../> : <TVShowForm .../>
FormsOf(kind) == IF kind = "movies" THEN {"MovieForm", "MovieFormB"} ELSE {"TVShowForm"}

Schema(f) == IF f = "TVShowForm" THEN tvShowSchema ELSE movieSchema
Keys(f) == IF f = "TVShowForm" THEN tvShowKeys ELSE movieKeys

\* The fields the form renders an input for (the renderField calls).
InputFields(f) == {Keys(f)[i] : i \in 1..Len(Keys(f))} \ {"type"}

\* The type attribute passed to renderField.
InputType(field) ==
    IF field \in {"budget", "duration", "year", "startYear", "endYear"}
      THEN "number" ELSE "text"

\* The object given to useState before `...initialData` is spread over it.
DefaultFormData(f) ==
    IF f = "TVShowForm"
      THEN [type |-> Str("tvshow"), title |-> Str(""), director |-> Str(""),
            budget |-> Num(0), location |-> Str(""), duration |-> Num(0),
            startYear |-> Num(CurrentYear), endYear |-> Undefined, poster |-> Str("")]
      ELSE [type |-> Str("movie"), title |-> Str(""), director |-> Str(""),
            budget |-> Num(0), location |-> Str(""), duration |-> Num(0),
            year |-> Num(CurrentYear), poster |-> Str("")]

\* The record behind a row of the table, as the backend returned it: the
\* server-set id and timestamps and the fields of its kind.  A TV show that
\* is still running has no endYear.
Record(item) ==
    LET common == [id |-> [t |-> "string", s |-> "id", n |-> item.id, half |-> FALSE],
                   createdAt |-> Str("2024-01-01T00:00:00Z"),
                   updatedAt |-> Str("2024-01-02T00:00:00Z"),
                   type |-> Str(item.type), title |-> Str("a"), director |-> Str("b"),
                   budget |-> Num(5), location |-> Str("c"), duration |-> Num(90),
                   poster |-> Str("d")]
    IN IF item.type = "movie"
         THEN Spread(common, [year |-> Num(2000)])
         ELSE IF item.id = 1
           THEN Spread(common, [startYear |-> Num(2000)])
           ELSE Spread(common, [startYear |-> Num(2000), endYear |-> Num(2001)])

\* What the user can leave in an input after typing: text inputs empty or
\* not, number inputs empty or holding one of the numerals around the bounds
\* of the schema (duration 1/2 is below 1 and not an integer).
Typed(field) ==
    IF InputType(field) = "text" THEN {Str(""), Str("a")}
    ELSE IF field = "budget" THEN {Str(""), Numeral(Num(-1)), Numeral(Num(1))}
    ELSE IF field = "duration" THEN {Str(""), Numeral(NumHalf(0)), Numeral(Num(1))}
    ELSE {Str(""), Numeral(Num(1899)), Numeral(Num(1900))}

\* ------------------------------------------------------------- form state
Op(op, field, value, ok) == [op |-> op, field |-> field, value |-> value, ok |-> ok]

\* {}
NoKeys == [k \in {} |-> Undefined]

\* The application without a form being followed.
FormUnmounted ==
    /\ form = "none"
    /\ formData = NoKeys
    /\ errors = NoKeys
    /\ touched = {}
    /\ posted = <<>>
    /\ steps = 0
    /\ lastOp = Op("none", "", Undefined, TRUE)

\* ---------------------------------------------------------- specification
\* The state after the first render and its effects: the activeTab effect has
\* run setPage(1); setData([]); fetchData() for the movies tab.
Init ==
    /\ activeTab = "movies"
    /\ data = <<>>
    /\ page = 1
    /\ hasMore = TRUE
    /\ isLoading = TRUE
    /\ isAddModalOpen = FALSE
    /\ isEditModalOpen = FALSE
    /\ isDeleteModalOpen = FALSE
    /\ selectedItem = NoItem
    /\ listReqs = <<FetchRequest("movies", 1, "mount", <<>>)>>
    /\ mutReqs = <<>>
    /\ returned = {}
    /\ issued = 0
    /\ confirms = 0
    /\ last = Event("mount", 0, "")
    /\ FormUnmounted

Next ==
    \/ \E k \in Kinds : SwitchTab(k)
    \/ ScrollEnd
    \/ \E i \in 1..(MaxRequests + 1) : FetchSuccess(i)
    \/ \E i \in 1..(MaxRequests + 1) : FetchFailure(i)
    \/ OpenAdd
    \/ CancelAdd
    \/ \E item \in Rows : OnEdit(item)
    \/ \E item \in Rows : OnDelete(item)
    \/ CancelEdit
    \/ CancelDelete
    \/ SubmitAdd
    \/ SubmitEdit
    \/ ConfirmDelete
    \/ \E i \in 1..(MaxRequests + 1) : MutationSuccess(i)
    \/ \E i \in 1..(MaxRequests + 1) : MutationFailure(i)

Spec == Init /\ [][Next]_<<vars, formVars>>

\* ------------------------------------------------------------ form events
\* value={formData[field] || ''}: the content of the field's input.
InputValue(field) ==
    LET v == Or(Get(formData, field), Str(""))
    IN IF v.t = "number" THEN Numeral(v) ELSE v

\* renderField's showError: whether the field gets the error styling and the
\* message line.  MovieForm: touched[field] && errors[field]?.length > 0; the
\* other two forms: touched[field] && errors[field], which an empty list
\* satisfies as well, every array being truthy.
showError(field) ==
    /\ field \in touched
    /\ field \in DOMAIN errors
    /\ form = "MovieForm" => Len(errors[field]) > 0

\* const newValue = type === 'number' ? parseFloat(value) || 0 : value
NewValue(field, value) ==
    IF InputType(field) = "number" THEN Or(ParseFloat(value), Num(0)) ELSE value

\* A validateField that sets errors to an object holding this field only.
validateFieldDropsOthers(name, value) ==
    errors' = Put(NoKeys, name, ZodParse(Schema(form)[name], value))

\* validateField(name, value): the field's entry in errors becomes the list of
\* messages of schema.shape[name].parse(value), the empty list on success.
validateField(name, value) ==
    errors' = Put(errors, name, ZodParse(Schema(form)[name], value))

\* handleChange: a keystroke that leaves `value` in the field's input.
handleChange(field, value) ==
    /\ form # "none"
    /\ steps < MaxSteps
    /\ field \in InputFields(form)
    /\ value \in Typed(field)
    /\ value # InputValue(field)
    /\ LET newValue == NewValue(field, value)
       IN /\ formData' = Put(formData, field, newValue)
          /\ IF field \in touched
               THEN validateField(field, newValue)
               ELSE UNCHANGED errors
          /\ lastOp' = Op("change", field, newValue, TRUE)
    /\ steps' = steps + 1
    /\ UNCHANGED <<form, touched, posted, vars>>

\* handleBlur: the field's input loses focus; e.target.value is its content.
handleBlur(field) ==
    /\ form # "none"
    /\ steps < MaxSteps
    /\ field \in InputFields(form)
    /\ LET newValue == NewValue(field, InputValue(field))
       IN /\ touched' = touched \cup {field}
          /\ validateField(field, newValue)
          /\ lastOp' = Op("blur", field, newValue, TRUE)
    /\ steps' = steps + 1
    /\ UNCHANGED <<form, formData, posted, vars>>

\* The errors object handleSubmit builds from the issues of a failed parse.
\* MovieForm pushes every message onto the list of its path; the other two
\* forms assign `[err.message]`, so a later issue of a path replaces the
\* earlier one.
SubmitErrors(f, issues) ==
    LET paths == {issues[i].path : i \in 1..Len(issues)}
        of(p) == SelectSeq(issues, LAMBDA e : e.path = p)
    IN [p \in paths |->
           IF f = "MovieForm"
             THEN [i \in 1..Len(of(p)) |-> of(p)[i].message]
             ELSE <<of(p)[Len(of(p))].message>>]

\* The touched flags after a failed submit: MovieForm sets the flag of every
\* key of formData; the other two forms leave touched as it is.
SubmitTouched(f) == IF f = "MovieForm" THEN DOMAIN formData ELSE touched

\* The request api.create / api.update sends for the data handed to onSubmit:
\* POST /{kind} or PUT /{kind}/{id} with body { ...data, type }.
Request(method, kind, id, validatedData) ==
    [method |-> method, kind |-> kind, id |-> id,
     body |-> Put(validatedData, "type", Str(TypeOf(kind)))]

\* A submit handler that hands formData to onSubmit without parsing it.
handleSubmitSkipsValidation ==
    /\ form # "none"
    /\ steps < MaxSteps
    /\ IF isAddModalOpen
         THEN /\ mutReqs' = Append(mutReqs, MutRequest("create", NoItem))
              /\ posted' = Append(posted, Request("POST", activeTab, 0, formData))
         ELSE /\ mutReqs' = Append(mutReqs, MutRequest("update", selectedItem))
              /\ posted' = Append(posted, Request("PUT", activeTab, selectedItem.id, formData))
    /\ issued' = issued + 1
    /\ lastOp' = Op("submit", "", Undefined, TRUE)
    /\ steps' = steps + 1
    /\ UNCHANGED <<form, formData, errors, touched, activeTab, loader, isLoading, modals,
                   selectedItem, listReqs, returned, confirms, last>>

\* handleSubmit: schema.parse(formData); without issues onSubmit(validatedData)
\* runs the application's add or edit handler up to its `await api.create(...)`
\* or `await api.update(selectedItem.id, ...)`, as SubmitAdd and SubmitEdit do;
\* with issues the errors are replaced by those of the parse.
handleSubmit ==
    /\ form # "none"
    /\ steps < MaxSteps
    /\ LET issues == ObjectIssues(Schema(form), Keys(form), formData, 1)
           validatedData == ObjectOutput(Schema(form), Keys(form), formData)
       IN IF issues = <<>>
            THEN /\ IF isAddModalOpen
                      THEN /\ mutReqs' = Append(mutReqs, MutRequest("create", NoItem))
                           /\ posted' = Append(posted,
                                  Request("POST", activeTab, 0, validatedData))
                      ELSE /\ mutReqs' = Append(mutReqs, MutRequest("update", selectedItem))
                           /\ posted' = Append(posted,
                                  Request("PUT", activeTab, selectedItem.id, validatedData))
                 /\ issued' = issued + 1
                 /\ lastOp' = Op("submit", "", Undefined, TRUE)
                 /\ UNCHANGED <<errors, touched, activeTab, loader, isLoading, modals,
                                selectedItem, listReqs, returned, confirms, last>>
            ELSE /\ errors' = SubmitErrors(form, issues)
                 /\ touched' = SubmitTouched(form)
                 /\ lastOp' = Op("submit", "", Undefined, FALSE)
                 /\ UNCHANGED <<posted, vars>>
    /\ steps' = steps + 1
    /\ UNCHANGED <<form, formData>>

\* ----------------------------------------------- the form's specification
\* The application when a form has just been mounted: the first page of the
\* active kind is on display, no request is outstanding, and either "Add New"
\* or the Edit button of `item` has been pressed.
Mounted(kind, item) ==
    /\ activeTab = kind
    /\ data = PaginatedResponse(kind, 1, Limit).data
    /\ page = 1
    /\ hasMore = PaginatedResponse(kind, 1, Limit).meta.hasMore
    /\ isLoading = FALSE
    /\ isAddModalOpen = (item = NoItem)
    /\ isEditModalOpen = (item # NoItem)
    /\ isDeleteModalOpen = FALSE
    /\ selectedItem = item
    /\ listReqs = <<>>
    /\ mutReqs = <<>>
    /\ returned = {[no |-> 1, kind |-> kind, page |-> 1]}
    /\ issued = IF kind = "movies" THEN 0 ELSE 1
    /\ confirms = 0
    /\ last = Event("fetchOk", 0, "")

\* The fields the user of the add form has to fill in: the defaults of the
\* others pass the schema.
Required == {"title", "director", "location", "duration"}

\* useState({ ...defaults, ...initialData }), useState({}), useState({}): the
\* add form has no initialData, the edit form gets the selected record.  The
\* add form is followed either from its mount or from the moment the user has
\* typed a value into each required field and left it.
FormInit ==
    \E kind \in Kinds :
      \E item \in {NoItem} \cup {PaginatedResponse(kind, 1, Limit).data[i] :
                                     i \in {1, PageLen(Total(kind), 1, Limit)}} :
        \E f \in FormsOf(kind) :
          \E filled \in {FALSE} \cup {item = NoItem} :
            /\ Mounted(kind, item)
            /\ form = f
            /\ formData =
                 IF filled
                   THEN Spread(DefaultFormData(f),
                               [k \in Required |-> IF k = "duration" THEN Num(1) ELSE Str("a")])
                   ELSE Spread(DefaultFormData(f),
                               IF item = NoItem THEN NoKeys ELSE Record(item))
            /\ errors = IF filled THEN [k \in Required |-> <<>>] ELSE NoKeys
            /\ touched = IF filled THEN Required ELSE {}
            /\ posted = <<>>
            /\ steps = 0
            /\ lastOp = Op("mount", "", Undefined, TRUE)

FormNext ==
    \/ \E field \in InputFields(form) : \E value \in Typed(field) : handleChange(field, value)
    \/ \E field \in InputFields(form) : handleBlur(field)
    \/ handleSubmit

FormSpec == FormInit /\ [][FormNext]_<<vars, formVars>>

\* ------------------------------------------------------------ properties
ResetStep == (\E k \in Kinds : SwitchTab(k)) \/ (\E i \in DOMAIN mutReqs : MutationSuccess(i))

Response(r) == PaginatedResponse(r.kind, r.page, r.limit)

\* C1: after a kind switch, data holds no record of the other kind, whatever
\* the order of tab clicks and list responses.
C1_NoRecordOfOtherKind ==
    \A i \in DOMAIN data : data[i].type = TypeOf(activeTab)

\* C2: every reset issues a list request for page 1 of the active kind,
\* whatever the cursor was, and the successful answer to it replaces data by
\* exactly page 1 of the active kind.
C2_ResetFetchesPageOne ==
    [][/\ ResetStep =>
            /\ listReqs'[Len(listReqs')].page = 1
            /\ listReqs'[Len(listReqs')].kind = activeTab'
       /\ \A i \in DOMAIN listReqs :
            (FetchSuccess(i) /\ listReqs[i].cur /\ listReqs[i].origin # "more")
                => data' = PaginatedResponse(activeTab, 1, Limit).data]_vars

\* C3: right after a reset, before any answer to its re-fetch is handled,
\* data is empty, page is 1 and hasMore is true.
C3_ResetState ==
    last.ev = "reset" => (data = <<>> /\ page = 1 /\ hasMore = TRUE)

\* C4: data is the concatenation, in request order, of the pages returned to
\* the requests issued since the last reset, and is never longer than the sum
\* of their sizes.
RECURSIVE ReturnedFrom(_)
ReturnedFrom(n) ==
    IF n > MaxRequests + 1 THEN <<>>
    ELSE (IF \E e \in returned : e.no = n
            THEN PaginatedResponse((CHOOSE e \in returned : e.no = n).kind,
                                   (CHOOSE e \in returned : e.no = n).page, Limit).data
            ELSE <<>>) \o ReturnedFrom(n + 1)

C4_DataIsConcatenation ==
    /\ data = ReturnedFrom(1)
    /\ Len(data) <= Len(ReturnedFrom(1))

\* C5: hasMore turns false only when a list response with meta.hasMore false
\* is processed, and while hasMore is false a load-more trigger issues no
\* request and changes neither page nor data.
C5_HasMoreFalse ==
    [][/\ (hasMore /\ ~hasMore') =>
            \E i \in DOMAIN listReqs : FetchSuccess(i) /\ ~Response(listReqs[i]).meta.hasMore
       /\ (ScrollEnd /\ ~hasMore) => UNCHANGED <<page, data, listReqs>>]_vars

\* C5 witness: the load-more trigger has fired with hasMore false.
C5_Witness ==
    last = Event("scrollEnd", 0, "noop") /\ ~hasMore /\ data # <<>>

\* C6: at most one list request is outstanding at any moment.
C6_OneListRequest ==
    Len(listReqs) <= 1

\* C7: handling a failed list request leaves data, page and hasMore as they
\* were; in particular hasMore is not set to false.
C7_FailureLeavesLoader ==
    [][\A i \in DOMAIN listReqs : FetchFailure(i) => UNCHANGED <<data, page, hasMore>>]_vars

\* C7 witness: a load-more request has just failed with a list on display.
C7_Witness ==
    last.ev = "fetchFail" /\ last.tag = "more" /\ data # <<>> /\ hasMore /\ page > 1

\* C8: after the request for page n failed, the next load-more request is again
\* for page n, so no page from 1 to the highest loaded one is missing in data.
PageOfRecord(rec) == ((rec.id - 1) \div Limit) + 1
LoadedPages == {PageOfRecord(data[i]) : i \in DOMAIN data}

C8_FailedPageRetried ==
    [][/\ (ScrollEnd /\ hasMore /\ last.ev = "fetchFail") =>
            listReqs'[Len(listReqs')].page = last.page
       /\ \A n \in LoadedPages' : \A m \in 1..n : m \in LoadedPages']_vars

\* C9 as stated: when the re-fetch after a successful create, update or
\* delete fails, data again holds the list shown before, and hasMore is unaltered.
C9_PriorListKept ==
    [][\A i \in DOMAIN listReqs :
          (FetchFailure(i) /\ listReqs[i].origin = "mutation")
              => (data' = listReqs[i].prior /\ hasMore' = hasMore)]_vars

\* C9 amended: when the re-fetch after a successful create, update or delete
\* fails, handling the failure changes neither data nor hasMore; the list
\* that the reset discarded is not put back.
C9_FailedRefetchLeavesLoader ==
    [][\A i \in DOMAIN listReqs :
          (FetchFailure(i) /\ listReqs[i].origin = "mutation")
              => UNCHANGED <<data, hasMore>>]_vars

\* C9 witness: the re-fetch after a successful submission has just failed; the
\* list is the empty one the reset left, and hasMore is still the false that
\* the fully loaded list before the submission had set.
C9_Witness ==
    /\ last.ev = "fetchFail" /\ last.tag = "mutation"
    /\ data = <<>> /\ hasMore = FALSE /\ listReqs = <<>>

\* C10: a failed create, update or delete leaves the modals, selectedItem,
\* data, page and hasMore unchanged and issues no list request.
C10_MutationFailureChangesNothing ==
    [][\A i \in DOMAIN mutReqs :
          MutationFailure(i) =>
              UNCHANGED <<modals, selectedItem, data, page, hasMore, listReqs>>]_vars

\* C10 witness: an update has just failed and its edit modal is still open on
\* the selected item.
C10_Witness ==
    last = Event("mutFail", 0, "update") /\ EditModalRendered /\ data # <<>>

\* C11: from one opening of the delete confirmation at most one DELETE
\* request is issued, however often Delete is pressed while the first request
\* is outstanding.
C11_OneDeletePerConfirmation == confirms <= 1

\* C12: cancelling the delete confirmation issues no request and leaves data,
\* page, hasMore and activeTab unchanged; it only closes the modal and clears
\* selectedItem.
C12_CancelDeleteOnlyCloses ==
    [][CancelDelete =>
          /\ UNCHANGED <<data, page, hasMore, activeTab, listReqs, mutReqs,
                         isLoading, isAddModalOpen, isEditModalOpen>>
          /\ isDeleteModalOpen' = FALSE
          /\ selectedItem' = NoItem]_vars

\* C12 witness: the confirmation was cancelled while its DELETE, the only
\* request triggered since the initial load, is still outstanding: the modal
\* is closed, the list is on display and no list request is outstanding.
C12_Witness ==
    /\ issued = 1 /\ Len(mutReqs) = 1 /\ mutReqs[1].op = "delete"
    /\ ~isDeleteModalOpen /\ selectedItem = NoItem
    /\ data # <<>> /\ listReqs = <<>>

\* ------------------------------------------------------- form properties
\* Whether an object violates a rule of the form's schema.
Violates(f, obj) ==
    \E i \in 1..Len(Keys(f)) : ZodParse(Schema(f)[Keys(f)[i]], Get(obj, Keys(f)[i])) # <<>>

\* C13: in each form, a submit whose form data violates a schema rule does not
\* invoke onSubmit: it issues no POST and no PUT request.
C13_InvalidSubmitIssuesNothing ==
    [][(handleSubmit /\ Violates(form, formData)) => UNCHANGED <<posted, mutReqs>>]_<<vars, formVars>>

\* C13 witness: after one accepted submit the user made the data invalid and
\* submitted again; the second submit failed and added no request.
C13_Witness ==
    /\ lastOp.op = "submit" /\ ~lastOp.ok
    /\ Violates(form, formData)
    /\ Len(posted) = 1 /\ Len(mutReqs) = 1

\* C14: in each form, after a submit that failed validation every field of
\* the form is touched, so the message of every violating field is visible.
C14_FailedSubmitTouchesAll ==
    (lastOp.op = "submit" /\ ~lastOp.ok) => InputFields(form) \subseteq touched

\* C15: in every form state a field is shown in its error state exactly
\* when it is touched and its entry in errors is a non-empty list.
C15_ErrorShownIffTouchedWithMessages ==
    \A field \in InputFields(form) :
        form # "none" =>
            (showError(field) <=>
                (field \in touched /\ field \in DOMAIN errors /\ errors[field] # <<>>))

\* The last form event ran validateField on lastOp.field with lastOp.value:
\* every blur does, and a keystroke does when the field is touched.
Validated ==
    \/ lastOp.op = "blur"
    \/ lastOp.op = "change" /\ lastOp.field \in touched

\* C16: field validation gives exactly the message "Title is required" for
\* title '', exactly "Budget must be positive" for budget -1 and no message
\* for budget 0, "Duration must be positive" for duration 0 and no message
\* for duration 1.
C16_FieldMessages ==
    Validated =>
        /\ (lastOp.field = "title" /\ lastOp.value = Str(""))
              => errors["title"] = <<"Title is required">>
        /\ (lastOp.field = "budget" /\ lastOp.value = Num(-1))
              => errors["budget"] = <<"Budget must be positive">>
        /\ (lastOp.field = "budget" /\ lastOp.value = Num(0))
              => errors["budget"] = <<>>
        /\ (lastOp.field = "duration" /\ lastOp.value = Num(0))
              => errors["duration"] = <<"Duration must be positive">>
        /\ (lastOp.field = "duration" /\ lastOp.value = Num(1))
              => errors["duration"] = <<>>

\* C16 witness: the user left the empty title, then typed -1 as budget and
\* left that field: both fields carry their one message.
C16_Witness ==
    /\ lastOp = Op("blur", "budget", Num(-1), TRUE)
    /\ errors["budget"] = <<"Budget must be positive">>
    /\ "title" \in touched
    /\ "title" \in DOMAIN errors
    /\ errors["title"] = <<"Title is required">>

\* The last form event was a submit of a movie form that failed, with an
\* empty title and every field other than title and year passing its rules.
EmptyTitleSubmitFailed ==
    /\ form \in {"MovieForm", "MovieFormB"}
    /\ lastOp.op = "submit" /\ ~lastOp.ok
    /\ formData["title"] = Str("")
    /\ \A k \in InputFields(form) \ {"title", "year"} :
           ZodParse(movieSchema[k], Get(formData, k)) = <<>>

\* C17: submit validation of a movie with an empty title and year 1899, all
\* other fields valid, reports violations for exactly title and year; with
\* year 1900 it reports title only.
C17_SubmitViolations ==
    EmptyTitleSubmitFailed =>
        /\ formData["year"] = Num(1899) => DOMAIN errors = {"title", "year"}
        /\ formData["year"] = Num(1900) => DOMAIN errors = {"title"}
        /\ \A k \in DOMAIN errors : errors[k] # <<>>

\* C17 witness: the edit form of a valid movie was submitted after the user
\* emptied the title and typed 1899 as year.
C17_Witness ==
    /\ EmptyTitleSubmitFailed
    /\ form = "MovieForm"
    /\ formData["year"] = Num(1899)
    /\ errors = [title |-> <<"Title is required">>, year |-> <<"Year must be after 1900">>]

\* C18: when a field violates several rules at once, blur validation and
\* submit validation both keep all of its messages in errors[field], in the
\* order the rules are declared, in each form.
C18_AllMessagesRetained ==
    /\ Validated =>
           errors[lastOp.field] = ZodParse(Schema(form)[lastOp.field], lastOp.value)
    /\ (lastOp.op = "submit" /\ ~lastOp.ok) =>
           \A k \in DOMAIN errors :
               errors[k] = ZodParse(Schema(form)[k], Get(formData, k))

\* An optional field the user left unset: undefined, or the empty string.
Unset(field) ==
    /\ Schema(form)[field].optional
    /\ Get(formData, field) \in {Undefined, Str("")}

\* C19: an optional field left unset passes validation on blur and on submit,
\* and blur validation of any field reports what submit validation reports
\* for the field's stored value.
C19_OptionalUnsetPasses ==
    /\ (lastOp.op = "blur" /\ Unset(lastOp.field)) => errors[lastOp.field] = <<>>
    /\ (lastOp.op = "submit" /\ ~lastOp.ok) =>
           \A k \in DOMAIN errors : ~Unset(k)
    /\ lastOp.op = "blur" =>
           errors[lastOp.field] =
               ZodParse(Schema(form)[lastOp.field], Get(formData, lastOp.field))

\* The keys of a record that only the server sets.
ServerSet == {"id", "createdAt", "updatedAt"}

\* C20: no POST or PUT body carries an id or a creation / update timestamp,
\* also when the form was opened on an existing record, which has all three.
C20_NoServerSetKeyInBody ==
    \A i \in DOMAIN posted : DOMAIN posted[i].body \cap ServerSet = {}

\* C20 witness: the edit form, whose formData holds the record's id and
\* timestamps, was submitted and its PUT request issued.
C20_Witness ==
    /\ posted # <<>>
    /\ posted[Len(posted)].method = "PUT"
    /\ posted[Len(posted)].id = selectedItem.id
    /\ ServerSet \subseteq DOMAIN formData
    /\ lastOp.op = "submit" /\ lastOp.ok

\* --------------------------------------------- table and loader properties
\* A step of the table: its load-more trigger or one of its row buttons.
TableStep ==
    \/ ScrollEnd
    \/ \E item \in Rows : OnEdit(item)
    \/ \E item \in Rows : OnDelete(item)

\* C21: the table calls loadMore only in states where hasMore is true and
\* isLoading is false; no step of the table changes data or issues a create,
\* update or delete, and the only list request that follows one is the page
\* effect's request for the raised cursor.
C21_LoadMoreGuarded ==
    [][/\ (ScrollEnd /\ page' # page) => (hasMore /\ ~isLoading)
       /\ TableStep =>
            /\ UNCHANGED <<data, hasMore, mutReqs>>
            /\ \/ UNCHANGED listReqs
               \/ /\ page' = page + 1
                  /\ listReqs' = Append(listReqs,
                         FetchRequest(activeTab, page', "more", <<>>))]_vars

\* C21 witness: the table has just called loadMore with a list on display.
C21_Witness ==
    /\ last = Event("scrollEnd", 0, "more")
    /\ page = 2 /\ Len(data) = Limit /\ isLoading
    /\ listReqs = <<FetchRequest(activeTab, 2, "more", <<>>)>>

\* C22: handling a successful list response replaces data by the response
\* when the request was for page 1 and appends the response to data when it
\* was for a later page; either way hasMore becomes the response's
\* meta.hasMore.  Every list request asks for 10 records.
C22_ResponseProcessing ==
    [][/\ \A i \in DOMAIN listReqs :
            FetchSuccess(i) =>
                /\ listReqs[i].page = 1 => data' = Response(listReqs[i]).data
                /\ listReqs[i].page > 1 => data' = data \o Response(listReqs[i]).data
                /\ hasMore' = Response(listReqs[i]).meta.hasMore
       /\ \A j \in DOMAIN listReqs : listReqs[j].limit = 10
       /\ \A j \in DOMAIN listReqs' : listReqs'[j].limit = 10]_vars

\* C22 witness: the answer to the request for page 2 has just been appended
\* to page 1.
C22_Witness ==
    /\ last.ev = "fetchOk"
    /\ page = 2 /\ listReqs = <<>>
    /\ data = PaginatedResponse(activeTab, 1, Limit).data
                \o PaginatedResponse(activeTab, 2, Limit).data
    /\ hasMore = PaginatedResponse(activeTab, 2, Limit).meta.hasMore

\* ------------------------------------------------ field validation frames
\* The step left every entry of errors, every touched flag and every form
\* value of the fields other than `field` as it was.
OthersUnchanged(field) ==
    /\ DOMAIN errors' \ {field} = DOMAIN errors \ {field}
    /\ \A k \in DOMAIN errors \ {field} : errors'[k] = errors[k]
    /\ touched' \ {field} = touched \ {field}
    /\ DOMAIN formData' \ {field} = DOMAIN formData \ {field}
    /\ \A k \in DOMAIN formData \ {field} : formData'[k] = formData[k]

\* C23: validating one field, on blur or on a keystroke in a touched field,
\* changes that field's entry in errors only: the entries and touched flags
\* of the other fields and the other form values stay as they are.
C23_ValidationTouchesOneField ==
    [][\A field \in InputFields(form) :
          (\/ handleBlur(field)
           \/ field \in touched /\ \E value \in Typed(field) : handleChange(field, value))
          => OthersUnchanged(field)]_<<vars, formVars>>

\* C23 witness: the user left the empty title, then the empty director: the
\* second validation kept the title's message.
C23_Witness ==
    /\ lastOp = Op("blur", "director", Str(""), TRUE)
    /\ touched = {"title", "director"}
    /\ errors = [title |-> <<"Title is required">>, director |-> <<"Director is required">>]

\* errors[field] ?? []: the messages recorded for a field.
Messages(field) == IF field \in DOMAIN errors THEN errors[field] ELSE <<>>

\* C24: a keystroke in an untouched field updates the form value and leaves
\* errors unchanged; a keystroke in a touched field validates the new value;
\* so the messages of every touched field are those of its current value.
C24_TouchedErrorsCurrent ==
    \A field \in InputFields(form) :
        (form # "none" /\ field \in touched) =>
            Messages(field) = ZodParse(Schema(form)[field], Get(formData, field))

\* ---------------------------------------------------------------------
\* The loading flag
\* ---------------------------------------------------------------------

\* C25: isLoading is true whenever at least one list request is
\* outstanding, so the table is not mounted while a list response is pending.
C25_LoadingWhileOutstanding ==
    listReqs # <<>> => (isLoading /\ ~TableMounted)

\* The network answers: some outstanding list request is fulfilled or rejected.
Respond == \E i \in 1..MaxRequests : FetchSuccess(i) \/ FetchFailure(i)

\* The application shell under the assumption that every outstanding list
\* request eventually receives a response or an error.
FairSpec == Spec /\ WF_<<vars, formVars>>(Respond)

\* C26: the loading indicator never gets stuck: isLoading is false in every
\* state in which no list request is outstanding, and, when every
\* outstanding list request is eventually answered, a set isLoading
\* eventually becomes false.
C26_LoadingEnds ==
    /\ [](listReqs = <<>> => ~isLoading)
    /\ isLoading ~> ~isLoading

\* Two overlapping list requests have both been answered, the last one with
\* an error, and the flag is clear.
C26_Witness ==
    /\ last.ev = "fetchFail"
    /\ issued >= 2
    /\ listReqs = <<>>
    /\ ~isLoading

\* ---------------------------------------------------------------------
\* The selected record
\* ---------------------------------------------------------------------

\* C27: every PUT and DELETE request is sent to the collection of the
\* selected record's own kind.
C27_RequestToOwnCollection ==
    \A i \in DOMAIN mutReqs :
        mutReqs[i].op \in {"update", "delete"} =>
            TypeOf(mutReqs[i].kind) = mutReqs[i].item.type

\* C28: if the edit-modal flag or the delete-modal flag is set then
\* selectedItem is non-null.
C28_OpenModalHasSelection ==
    (isEditModalOpen \/ isDeleteModalOpen) => selectedItem # NoItem

\* ---------------------------------------------------------------------
\* The list and the cursor
\* ---------------------------------------------------------------------

\* C29: data never contains the same record (kind and id) twice.
C29_NoDuplicateRecord ==
    \A i, j \in DOMAIN data : i # j => data[i] # data[j]

\* Pages 1 through n of a kind's collection, in page order.
RECURSIVE Pages(_, _)
Pages(kind, n) ==
    IF n = 0 THEN <<>>
    ELSE Pages(kind, n - 1) \o PaginatedResponse(kind, n, Limit).data

\* C30: whenever no list request is outstanding and the last list request
\* succeeded, data is the concatenation of pages 1 through page of the
\* active kind's collection.
C30_CursorAndListAgree ==
    (listReqs = <<>> /\ last.ev = "fetchOk") => data = Pages(activeTab, page)
====
